---- MODULE Spec2Model ----
(***************************************************************************)
(* Subtitle anonymisation (anonymize_srt_vtt.py, anonymize_srt.py).        *)
(*                                                                         *)
(* Text is a sequence of one-character strings, a line is a text without   *)
(* a line feed.  The string methods of the scripts (split, strip, isdigit, *)
(* startswith, the `in` substring test, re.sub) are operators that compute *)
(* character by character what the library computes.                       *)
(*                                                                         *)
(* Three specifications share the variables:                               *)
(*   SpecAnon   anonymize_content and the loop of anonymize_srt on a text  *)
(*   SpecVtt    convert_vtt_to_srt, one loop iteration per step, then the  *)
(*              anonymisation of its result (anonymize_file on a .vtt)     *)
(*   SpecBatch  main of anonymize_srt_vtt.py on a small file system        *)
(***************************************************************************)
EXTENDS Integers, Sequences, FiniteSets, TLC

VARIABLES
    pc,                 \* position of the program
    content,            \* anonymize_file / anonymize_content: the text
    anonymized_content, \* anonymize_content(content)
    reanonymized,       \* anonymize_content(anonymized_content)
    srt_read,           \* anonymize_srt: lines (f.readlines())
    srt_written,        \* anonymize_srt: the text written by f.writelines
    vtt_content,        \* convert_vtt_to_srt: its argument
    lines,              \* convert_vtt_to_srt: vtt_content.split('\n')
    i,                  \* convert_vtt_to_srt: loop index (0-based)
    srt_lines,          \* convert_vtt_to_srt: emitted lines
    subtitle_num,       \* convert_vtt_to_srt: next sequence number
    in_subtitle,        \* convert_vtt_to_srt: inside a cue
    skip_block,         \* convert_vtt_to_srt: inside a STYLE/NOTE block
    argv,               \* main: sys.argv[1:]
    fs,                 \* the file system: path -> [exists, text]
    fs_initial,         \* the file system when the process started
    k,                  \* main: number of arguments already processed
    success_count,      \* main: success_count
    results,            \* the diagnostics printed, one per attempted path
    stdin,              \* what the closing input() finds on standard input
    exit_code           \* the process exit status, -1 while it runs

vars == <<pc, content, anonymized_content, reanonymized, srt_read, srt_written,
          vtt_content, lines, i, srt_lines, subtitle_num, in_subtitle,
          skip_block, argv, fs, fs_initial, k, success_count, results, stdin,
          exit_code>>

anonVars == <<content, anonymized_content, reanonymized, srt_read, srt_written>>
vttVars == <<vtt_content, lines, i, srt_lines, subtitle_num, in_subtitle, skip_block>>
batchVars == <<argv, fs, fs_initial, k, success_count, results, stdin, exit_code>>

---------------------------------------------------------------------------
(* Bounds *)

\* longest text enumerated character by character (SpecAnon)
MaxLen == 4
\* most text lines of one cue in the SubRip documents of SpecAnon
MaxTextLines == 2
\* most lines of a WebVTT document (SpecVtt)
MaxVttLines == 4
\* most cues of a well-formed WebVTT document (SpecVtt)
MaxCues == 2
\* most paths on the command line (SpecBatch)
MaxArgs == 3

---------------------------------------------------------------------------
(* Characters and the str methods the scripts use *)

LF == "\n"
CR == "\r"
TAB == "\t"
SP == " "
FF == "\f"
PLACEHOLDER == "X"
Arrow == <<"-", "-", ">">>

Digits == {"0", "1", "2", "3", "4", "5", "6", "7", "8", "9"}

\* str.isspace of one character: strip() removes these.  The form feed stands
\* for the white space that is none of ' ', '\n', '\r', '\t'.
IsSpace(c) == c \in {SP, TAB, LF, CR, FF}

\* the positions of s, in order, where test (a function on them) is true
Positions(s, test) == SelectSeq([j \in 1..Len(s) |-> j], LAMBDA j : test[j])

\* s.strip()
Strip(s) ==
    LET keep == Positions(s, [j \in 1..Len(s) |-> ~IsSpace(s[j])])
    IN  IF keep = <<>> THEN <<>> ELSE SubSeq(s, keep[1], keep[Len(keep)])

\* s.isdigit(): non-empty and every character a digit
IsDigitStr(s) == Len(s) > 0 /\ \A j \in 1..Len(s) : s[j] \in Digits

\* pat in s
Contains(s, pat) ==
    \E j \in 1..(Len(s) - Len(pat) + 1) : SubSeq(s, j, j + Len(pat) - 1) = pat

\* s.startswith(pre)
StartsWith(s, pre) == Len(s) >= Len(pre) /\ SubSeq(s, 1, Len(pre)) = pre

\* s.split('\n'): always at least one field, fields hold no line feed
Split(s) ==
    LET nl == Positions(s, [j \in 1..Len(s) |-> s[j] = LF])
        n == Len(nl)
    IN  [f \in 1..(n + 1) |->
            SubSeq(s, IF f = 1 THEN 1 ELSE nl[f - 1] + 1,
                      IF f = n + 1 THEN Len(s) ELSE nl[f] - 1)]

\* '\n'.join(ls)
RECURSIVE JoinFrom(_, _, _)
JoinFrom(ls, j, acc) ==
    IF j > Len(ls) THEN acc
    ELSE JoinFrom(ls, j + 1, IF j = 1 THEN ls[1] ELSE acc \o <<LF>> \o ls[j])

Join(ls) == JoinFrom(ls, 1, <<>>)

\* ''.join(ls)
RECURSIVE ConcatFrom(_, _, _)
ConcatFrom(ls, j, acc) ==
    IF j > Len(ls) THEN acc ELSE ConcatFrom(ls, j + 1, acc \o ls[j])

Concat(ls) == ConcatFrom(ls, 1, <<>>)

\* open(path, 'r').read(): universal newlines, "\r\n" and "\r" are read as "\n"
UniversalNewlines(s) ==
    LET kept == Positions(s, [j \in 1..Len(s) |-> ~(s[j] = LF /\ j > 1 /\ s[j - 1] = CR)])
    IN  [f \in 1..Len(kept) |-> IF s[kept[f]] = CR THEN LF ELSE s[kept[f]]]

\* f.readlines() of a text already read: every line keeps its "\n", the last
\* line has none when the text does not end with one; the empty text has no line
ReadLines(s) ==
    LET ends == Positions(s, [j \in 1..Len(s) |-> s[j] = LF \/ j = Len(s)])
    IN  [f \in 1..Len(ends) |->
            SubSeq(s, IF f = 1 THEN 1 ELSE ends[f - 1] + 1, ends[f])]

---------------------------------------------------------------------------
(* Structural anonymizer: anonymize_content, and the same loop in anonymize_srt *)

\* the three tests that keep a line as it is
IsBlankLine(line) == Strip(line) = <<>>
IsNumberLine(line) == IsDigitStr(Strip(line))
IsTimingLine(line) == Contains(line, Arrow)
IsStructural(line) == IsBlankLine(line) \/ IsNumberLine(line) \/ IsTimingLine(line)

\* variant: '\t' left out of the characters kept
AnonCharTabToo(c) == IF c \notin {SP, LF, CR} THEN PLACEHOLDER ELSE c
\* variant: a digit for placeholder
AnonCharDigit(c) == IF c \notin {SP, LF, CR, TAB} THEN "0" ELSE c
\* 'X' if c not in (' ', '\n', '\r', '\t') else c
AnonChar(c) == IF c \notin {SP, LF, CR, TAB} THEN PLACEHOLDER ELSE c

\* variant: the stripped line appended instead of the line
KeptLineStripped(line) == Strip(line)
\* anonymized_lines.append(line)
KeptLine(line) == line

\* one iteration of `for line in lines`
AnonymizeLine(line) ==
    IF IsBlankLine(line) THEN KeptLine(line)
    ELSE IF IsNumberLine(line) THEN KeptLine(line)
    ELSE IF IsTimingLine(line) THEN KeptLine(line)
    ELSE [j \in 1..Len(line) |-> AnonChar(line[j])]

\* variant: blank lines not appended
AnonymizeLinesSkipBlank(ls) ==
    LET kept == SelectSeq(ls, LAMBDA line : ~IsBlankLine(line))
    IN  [j \in 1..Len(kept) |-> AnonymizeLine(kept[j])]
\* the whole loop: anonymized_lines, one entry appended per line
AnonymizeLines(ls) == [j \in 1..Len(ls) |-> AnonymizeLine(ls[j])]

\* anonymize_srt_vtt.py: split on '\n', the loop, join with '\n'
anonymize_content(text) == Join(AnonymizeLines(Split(text)))

---------------------------------------------------------------------------
(* SpecAnon: the anonymizer applied to a text, then to its own output, then *)
(* the loop of anonymize_srt.py on the same text read with readlines()      *)

Alphabet == {"a", "1", "-", ">", SP, TAB, CR, LF, FF}

\* every text of at most MaxLen characters
FlatTexts == UNION {[1..m -> Alphabet] : m \in 0..MaxLen}

SrtNumber == <<"1">>
SrtTiming ==
    <<"0","0",":","0","0",":","0","1",",","0","0","0",SP,"-","-",">",SP,
      "0","0",":","0","0",":","0","3",",","5","0","0">>
HelloWorld == <<"H","e","l","l","o",",",SP,"w","o","r","l","d","!">>
SrtTextLines ==
    { HelloWorld,
      <<"4","2">>,
      <<"a",SP,"-","-",">",SP,"b">>,
      <<SP,"o","k",TAB>> }

\* one-cue SubRip documents: number, timing, 1..MaxTextLines text lines, blank
SrtDocs ==
    { Join(<<SrtNumber, SrtTiming>> \o t \o << <<>> >>) :
        t \in UNION {[1..m -> SrtTextLines] : m \in 1..MaxTextLines} }

Texts == FlatTexts \cup SrtDocs

InitAnon ==
    /\ pc = "anonymize"
    /\ content \in Texts
    /\ anonymized_content = <<>>
    /\ reanonymized = <<>>
    /\ srt_read = <<>>
    /\ srt_written = <<>>
    /\ vtt_content = <<>>
    /\ lines = <<>>
    /\ i = 0
    /\ srt_lines = <<>>
    /\ subtitle_num = 1
    /\ in_subtitle = FALSE
    /\ skip_block = FALSE
    /\ argv = <<>>
    /\ fs = <<>>
    /\ fs_initial = <<>>
    /\ k = 0
    /\ success_count = 0
    /\ results = <<>>
    /\ stdin = "line"
    /\ exit_code = -1

\* anonymized_content = anonymize_content(content)
Anonymize ==
    /\ pc = "anonymize"
    /\ anonymized_content' = anonymize_content(content)
    /\ pc' = "reanonymize"
    /\ UNCHANGED <<content, reanonymized, srt_read, srt_written>>
    /\ UNCHANGED <<vttVars, batchVars>>

\* anonymize_content applied to its own output
Reanonymize ==
    /\ pc = "reanonymize"
    /\ reanonymized' = anonymize_content(anonymized_content)
    /\ pc' = "srt"
    /\ UNCHANGED <<content, anonymized_content, srt_read, srt_written>>
    /\ UNCHANGED <<vttVars, batchVars>>

\* anonymize_srt.py on a file holding the same text: readlines, loop, writelines
AnonymizeSrt ==
    /\ pc = "srt"
    /\ srt_read' = ReadLines(UniversalNewlines(content))
    /\ srt_written' = Concat(AnonymizeLines(srt_read'))
    /\ pc' = "done"
    /\ UNCHANGED <<content, anonymized_content, reanonymized>>
    /\ UNCHANGED <<vttVars, batchVars>>

NextAnon == Anonymize \/ Reanonymize \/ AnonymizeSrt

SpecAnon == InitAnon /\ [][NextAnon]_vars

---------------------------------------------------------------------------
(* Format normalizer: convert_vtt_to_srt *)

WEBVTT == <<"W","E","B","V","T","T">>
STYLE == <<"S","T","Y","L","E">>
NOTE == <<"N","O","T","E">>

\* the pattern (\d{2}):(\d{2}):(\d{2})\.(\d{3}) matches s at position p
TimestampAt(s, p) ==
    /\ p >= 1
    /\ p + 11 <= Len(s)
    /\ \A d \in {0, 1, 3, 4, 6, 7, 9, 10, 11} : s[p + d] \in Digits
    /\ s[p + 2] = ":"
    /\ s[p + 5] = ":"
    /\ s[p + 8] = "."

\* re.sub replaces leftmost matches that do not overlap: a match at p is
\* replaced unless a replaced match covers p.  Two matches can only overlap
\* by 10 or 11 positions back (the three last digits of the first supply the
\* first digits of the second).
RECURSIVE TimestampReplacedAt(_, _)
TimestampReplacedAt(s, p) ==
    /\ TimestampAt(s, p)
    /\ ~(p > 10 /\ TimestampReplacedAt(s, p - 10))
    /\ ~(p > 11 /\ TimestampReplacedAt(s, p - 11))

\* re.sub(r'(\d{2}):(\d{2}):(\d{2})\.(\d{3})', r'\1:\2:\3,\4', line)
SubTimestamp(s) ==
    [j \in 1..Len(s) |-> IF j > 8 /\ TimestampReplacedAt(s, j - 8) THEN "," ELSE s[j]]

\* re.sub(r'\s+' + key + r'.*$', '', s): cut the line at the first white space
\* from which white space alone leads to key
SubSetting(s, key) ==
    LET keys == Positions(s, [q \in 1..Len(s) |-> /\ q + Len(key) - 1 <= Len(s)
                                        /\ SubSeq(s, q, q + Len(key) - 1) = key])
        cut == Positions(s, [p \in 1..Len(s) |->
                  \E f \in 1..Len(keys) :
                      p < keys[f] /\ \A r \in p..(keys[f] - 1) : IsSpace(s[r])])
    IN  IF cut = <<>> THEN s ELSE SubSeq(s, 1, cut[1] - 1)

AlignKey == <<"a","l","i","g","n",":">>
PositionKey == <<"p","o","s","i","t","i","o","n",":">>
LineKey == <<"l","i","n","e",":">>

\* the timing line emitted for a line that contains '-->'
Timecode(line) ==
    SubSetting(SubSetting(SubSetting(SubTimestamp(line), AlignKey), PositionKey), LineKey)

\* the first '>' of s at or after position from, 0 when there is none
FirstGt(s, from) ==
    LET g == Positions(s, [q \in 1..Len(s) |-> q >= from /\ s[q] = ">"])
    IN  IF g = <<>> THEN 0 ELSE g[1]

\* the end of the match of <v\s+[^>]+> at p, 0 when it does not match there
VoiceTagEnd(s, p) ==
    IF p + 2 <= Len(s) /\ s[p] = "<" /\ s[p + 1] = "v" /\ IsSpace(s[p + 2])
    THEN LET g == FirstGt(s, p + 3) IN IF g >= p + 4 THEN g ELSE 0
    ELSE 0

\* the end of the match of <c[^>]*> at p, 0 when it does not match there
ClassTagEnd(s, p) ==
    IF p + 1 <= Len(s) /\ s[p] = "<" /\ s[p + 1] = "c"
    THEN FirstGt(s, p + 2)
    ELSE 0

\* the end of the match of the literal lit at p, 0 when it does not match there
LiteralEnd(s, lit, p) ==
    IF p + Len(lit) - 1 <= Len(s) /\ SubSeq(s, p, p + Len(lit) - 1) = lit
    THEN p + Len(lit) - 1
    ELSE 0

\* re.sub(pattern, '', s) for a pattern whose overlapping matches all end at
\* the same place: of the matches that end at e the leftmost is removed
RemoveMatches(s, End) ==
    LET starts == {p \in 1..Len(s) : End[p] > 0}
        removed(j) == \E p \in starts : p <= j /\ j <= End[p]
        kept == Positions(s, [j \in 1..Len(s) |-> ~removed(j)])
    IN  [f \in 1..Len(kept) |-> s[kept[f]]]

CloseVoice == <<"<","/","v",">">>
CloseClass == <<"<","/","c",">">>

\* the four substitutions applied to a cue text line
CleanLine(line) ==
    LET a == RemoveMatches(line, [p \in 1..Len(line) |-> VoiceTagEnd(line, p)])
        b == RemoveMatches(a, [p \in 1..Len(a) |-> LiteralEnd(a, CloseVoice, p)])
        c == RemoveMatches(b, [p \in 1..Len(b) |-> ClassTagEnd(b, p)])
    IN  RemoveMatches(c, [p \in 1..Len(c) |-> LiteralEnd(c, CloseClass, p)])

\* str(subtitle_num), for the numbers the bounded documents can reach
DigitOf(n) == CASE n = 0 -> "0" [] n = 1 -> "1" [] n = 2 -> "2" [] n = 3 -> "3"
                [] n = 4 -> "4" [] n = 5 -> "5" [] n = 6 -> "6" [] n = 7 -> "7"
                [] n = 8 -> "8" [] n = 9 -> "9"
Str(n) == IF n < 10 THEN <<DigitOf(n)>> ELSE <<DigitOf(n \div 10), DigitOf(n % 10)>>

IsHeader(line) == StartsWith(line, WEBVTT)
IsBlockStart(line) == StartsWith(line, STYLE) \/ StartsWith(line, NOTE)

\* the branch of the loop body taken for the stripped line
ScanBranch(line, skip, insub) ==
    IF IsHeader(line) THEN "header"
    ELSE IF IsBlockStart(line) THEN "block_start"
    ELSE IF skip /\ line = <<>> THEN "block_end"
    ELSE IF skip THEN "skipped"
    ELSE IF line = <<>> /\ insub THEN "cue_end"
    ELSE IF Contains(line, Arrow) THEN "timecode"
    ELSE IF insub /\ line # <<>> THEN "text"
    ELSE "dropped"

\* what the branch does to the locals of the loop
ScanEffect(branch, line, st) ==
    CASE branch = "header" -> st
      [] branch = "block_start" -> [st EXCEPT !.skip_block = TRUE]
      [] branch = "block_end" -> [st EXCEPT !.skip_block = FALSE]
      [] branch = "skipped" -> st
      [] branch = "cue_end" ->
            [st EXCEPT !.srt_lines = Append(@, <<>>), !.in_subtitle = FALSE]
      [] branch = "timecode" ->
            [st EXCEPT !.srt_lines = @ \o <<Str(st.subtitle_num), Timecode(line)>>,
                       !.subtitle_num = @ + 1,
                       !.in_subtitle = TRUE]
      [] branch = "text" -> [st EXCEPT !.srt_lines = Append(@, CleanLine(line))]
      [] branch = "dropped" -> st

\* one iteration of the while loop on the raw line
ScanStep(raw, st) ==
    LET line == Strip(raw)
    IN  ScanEffect(ScanBranch(line, st.skip_block, st.in_subtitle), line, st)

\* the locals before the loop
ScanStart == [srt_lines |-> <<>>, subtitle_num |-> 1, in_subtitle |-> FALSE,
              skip_block |-> FALSE]

RECURSIVE ScanFrom(_, _, _)
ScanFrom(ls, j, st) ==
    IF j > Len(ls) THEN st ELSE ScanFrom(ls, j + 1, ScanStep(ls[j], st))

\* the whole function, as anonymize_file calls it
convert_vtt_to_srt(text) == Join(ScanFrom(Split(text), 1, ScanStart).srt_lines)

\* line = lines[i].strip(), the line the loop looks at
CurrentLine == Strip(lines[i + 1])

Scanning == pc = "scan" /\ i < Len(lines)

\* the locals of the loop, as a record
Locals == [srt_lines |-> srt_lines, subtitle_num |-> subtitle_num,
           in_subtitle |-> in_subtitle, skip_block |-> skip_block]

\* the call: lines = vtt_content.split('\n') and the initial locals
ConvertStart ==
    /\ pc = "convert"
    /\ lines' = Split(vtt_content)
    /\ srt_lines' = ScanStart.srt_lines
    /\ subtitle_num' = ScanStart.subtitle_num
    /\ in_subtitle' = ScanStart.in_subtitle
    /\ skip_block' = ScanStart.skip_block
    /\ i' = 0
    /\ pc' = "scan"
    /\ UNCHANGED <<vtt_content, anonVars, batchVars>>

\* one iteration of the loop that takes the given branch
ScanTaking(branch) ==
    /\ Scanning
    /\ ScanBranch(CurrentLine, skip_block, in_subtitle) = branch
    /\ LET st == ScanStep(lines[i + 1], Locals)
       IN  /\ srt_lines' = st.srt_lines
           /\ subtitle_num' = st.subtitle_num
           /\ in_subtitle' = st.in_subtitle
           /\ skip_block' = st.skip_block
    /\ i' = i + 1
    /\ UNCHANGED <<pc, vtt_content, lines, anonVars, batchVars>>

\* if line.startswith('WEBVTT'): continue
ScanHeader == ScanTaking("header")
\* if line.startswith('STYLE') or line.startswith('NOTE'): skip_block = True
ScanBlockStart == ScanTaking("block_start")
\* if skip_block and line == '': skip_block = False
ScanBlockEnd == ScanTaking("block_end")
\* if skip_block: continue
ScanSkipped == ScanTaking("skipped")
\* if line == '' and in_subtitle: the blank separator, the cue is closed
ScanCueEnd == ScanTaking("cue_end")
\* if '-->' in line: the sequence number, then the rewritten timing line
ScanTimecode == ScanTaking("timecode")
\* if in_subtitle and line: the cue text, its tags removed
ScanText == ScanTaking("text")
\* no branch taken: the line is dropped
ScanDropped == ScanTaking("dropped")

\* return '\n'.join(srt_lines), assigned to content by anonymize_file
ConvertReturn ==
    /\ pc = "scan"
    /\ i >= Len(lines)
    /\ content' = Join(srt_lines)
    /\ pc' = "anonymize"
    /\ UNCHANGED <<anonymized_content, reanonymized, srt_read, srt_written>>
    /\ UNCHANGED <<vttVars, batchVars>>

---------------------------------------------------------------------------
(* SpecVtt: anonymize_file on the text of a .vtt file *)

\* the timing line of the example, with a cue setting
TimingAlign ==
    <<"0","0",":","0","0",":","0","1",".","0","0","0",SP,"-","-",">",SP,"0",
      "0",":","0","0",":","0","3",".","5","0","0",SP,"a","l","i","g","n",
      ":","s","t","a","r","t">>
\* a timing line without hours, as WebVTT allows
TimingShort ==
    <<"0","0",":","0","1",".","0","0","0",SP,"-","-",">",SP,"0","0",":","0",
      "2",".","0","0","0">>
\* the voice span of the example
VoiceLine ==
    <<"<","v",SP,"J","o","h","n",">","H","i",SP,"t","h","e","r","e","<","/",
      "v",">">>
\* a cue text made of digits
DigitsText ==
    <<"4","2">>
\* a comment, or a cue text that starts with NOTE
NoteLine ==
    <<"N","O","T","E",SP,"x">>
\* the start of a style block
StyleLine ==
    <<"S","T","Y","L","E">>
\* a cue identifier
IdLine ==
    <<"c","1">>
\* a cue identifier that starts with NOTE
NoteId ==
    <<"N","O","T","E","1">>
\* a cue text that is markup only
ClassOnly ==
    <<"<","c",".","y",">","<","/","c",">">>

\* the lines the enumerated documents are made of
ScanLines ==
    {WEBVTT, <<>>, TimingAlign, VoiceLine, DigitsText, NoteLine, StyleLine,
     IdLine, ClassOnly}

\* every document of 1..MaxVttLines of these lines
LineDocs == UNION {[1..m -> ScanLines] : m \in 1..MaxVttLines}

\* a cue block: an optional identifier, a timing line, one text line
CueBlocks ==
    { id \o <<t, x>> :
        id \in {<<>>, <<IdLine>>, <<NoteId>>},
        t \in {TimingAlign, TimingShort},
        x \in {VoiceLine, DigitsText, NoteLine} }

RECURSIVE CueDocs(_)
CueDocs(n) ==
    IF n = 0 THEN {<<WEBVTT>>}
    ELSE {d \o << <<>> >> \o c : d \in CueDocs(n - 1), c \in CueBlocks}

\* the header, then 1..MaxCues cue blocks, a blank line before each
WellFormedDocs == UNION {CueDocs(n) : n \in 1..MaxCues}

VttDocs == {Join(d) : d \in LineDocs \cup WellFormedDocs}

InitVtt ==
    /\ pc = "convert"
    /\ vtt_content \in VttDocs
    /\ content = <<>>
    /\ anonymized_content = <<>>
    /\ reanonymized = <<>>
    /\ srt_read = <<>>
    /\ srt_written = <<>>
    /\ lines = <<>>
    /\ i = 0
    /\ srt_lines = <<>>
    /\ subtitle_num = 1
    /\ in_subtitle = FALSE
    /\ skip_block = FALSE
    /\ argv = <<>>
    /\ fs = <<>>
    /\ fs_initial = <<>>
    /\ k = 0
    /\ success_count = 0
    /\ results = <<>>
    /\ stdin = "line"
    /\ exit_code = -1

NextVtt ==
    \/ ConvertStart
    \/ ScanHeader
    \/ ScanBlockStart
    \/ ScanBlockEnd
    \/ ScanSkipped
    \/ ScanCueEnd
    \/ ScanTimecode
    \/ ScanText
    \/ ScanDropped
    \/ ConvertReturn
    \/ Anonymize

SpecVtt == InitVtt /\ [][NextVtt]_vars

---------------------------------------------------------------------------
(* SpecBatch: main of anonymize_srt_vtt.py, one anonymize_file call per step *)

\* os.path.splitext(path): the extension starts at the last period of the last
\* component, unless only periods precede it there
Splitext(path) ==
    LET seps == Positions(path, [j \in 1..Len(path) |-> path[j] = "/"])
        sep == IF seps = <<>> THEN 0 ELSE seps[Len(seps)]
        dots == Positions(path, [j \in 1..Len(path) |-> j > sep /\ path[j] = "."])
        dot == IF dots = <<>> THEN 0 ELSE dots[Len(dots)]
    IN  IF dot > 0 /\ \E j \in (sep + 1)..(dot - 1) : path[j] # "."
        THEN <<SubSeq(path, 1, dot - 1), SubSeq(path, dot, Len(path))>>
        ELSE <<path, <<>> >>

\* str.lower(), for the letters the paths hold
LowerChar(c) ==
    CASE c = "S" -> "s" [] c = "R" -> "r" [] c = "T" -> "t" [] c = "V" -> "v"
      [] OTHER -> c
Lower(t) == [j \in 1..Len(t) |-> LowerChar(t[j])]

ExtSrt == <<".","s","r","t">>
ExtVtt == <<".","v","t","t">>
OutputSuffix == <<"_","A","N","O","N","Y","M","E",".","s","r","t">>

\* ext = os.path.splitext(input_file)[1].lower()
Ext(path) == Lower(Splitext(path)[2])
Supported(path) == Ext(path) \in {ExtSrt, ExtVtt}

\* output_file = f"{base}_ANONYME.srt"
OutputFile(path) == Splitext(path)[1] \o OutputSuffix

\* what anonymize_file writes for a file that holds text
Processed(path, text) ==
    LET read == UniversalNewlines(text)
    IN  anonymize_content(IF Ext(path) = ExtVtt THEN convert_vtt_to_srt(read) ELSE read)

PathSrt == <<"a",".","s","r","t">>
PathVtt == <<"a",".","V","T","T">>
PathOut == <<"a","_","A","N","O","N","Y","M","E",".","s","r","t">>
PathTxt == <<"b",".","t","x","t">>

\* the paths a command line may name, and what each holds when it exists
ArgPaths == {PathSrt, PathVtt, PathOut, PathTxt}
InitialText(path) ==
    CASE path = PathSrt -> Join(<<SrtNumber, SrtTiming, HelloWorld>>)
      [] path = PathVtt -> Join(<<WEBVTT, <<>>, TimingAlign, VoiceLine>>)
      [] path = PathOut -> Join(<<SrtNumber, SrtTiming, DigitsText>>)
      [] path = PathTxt -> HelloWorld

FsPaths == ArgPaths \cup {OutputFile(q) : q \in ArgPaths}
NoFile == [exists |-> FALSE, text |-> <<>>]
File(text) == [exists |-> TRUE, text |-> text]

InitBatch ==
    /\ pc = "main"
    /\ argv \in UNION {[1..m -> ArgPaths] : m \in 0..MaxArgs}
    /\ \E present \in SUBSET ArgPaths :
          fs = [q \in FsPaths |->
                  IF q \in present THEN File(InitialText(q)) ELSE NoFile]
    /\ fs_initial = fs
    /\ stdin \in {"line", "eof"}
    /\ k = 0
    /\ success_count = 0
    /\ results = <<>>
    /\ exit_code = -1
    /\ content = <<>>
    /\ anonymized_content = <<>>
    /\ reanonymized = <<>>
    /\ srt_read = <<>>
    /\ srt_written = <<>>
    /\ vtt_content = <<>>
    /\ lines = <<>>
    /\ i = 0
    /\ srt_lines = <<>>
    /\ subtitle_num = 1
    /\ in_subtitle = FALSE
    /\ skip_block = FALSE

\* the loop of main is at argv[k + 1]
Looping == pc = "main" /\ Len(argv) >= 1 /\ k < Len(argv)
InputFile == argv[k + 1]

\* anonymize_file returned False after printing the diagnostic why
Failed(why) ==
    /\ results' = Append(results, [path |-> InputFile, ok |-> FALSE, why |-> why])
    /\ k' = k + 1
    /\ UNCHANGED <<pc, argv, fs_initial, success_count, stdin, exit_code>>
    /\ UNCHANGED <<anonVars, vttVars>>

\* if not os.path.exists(input_file): return False
FileMissing ==
    /\ Looping
    /\ ~fs[InputFile].exists
    /\ Failed("missing")
    /\ UNCHANGED fs

\* if ext not in ['.srt', '.vtt']: return False
FileUnsupported ==
    /\ Looping
    /\ fs[InputFile].exists
    /\ ~Supported(InputFile)
    /\ Failed("unsupported")
    /\ UNCHANGED fs

\* open(input_file) or f.read() raises: the except branch returns False
FileReadError ==
    /\ Looping
    /\ fs[InputFile].exists
    /\ Supported(InputFile)
    /\ Failed("error")
    /\ UNCHANGED fs

\* open(output_file, 'w') or f.write raises: the except branch returns False;
\* the output file is untouched when open raised, truncated when write raised
FileWriteError ==
    /\ Looping
    /\ fs[InputFile].exists
    /\ Supported(InputFile)
    /\ Failed("error")
    /\ \/ UNCHANGED fs
       \/ fs' = [fs EXCEPT ![OutputFile(InputFile)] = File(<<>>)]

\* read, convert when .vtt, anonymize, write: return True
FileAnonymized ==
    /\ Looping
    /\ fs[InputFile].exists
    /\ Supported(InputFile)
    /\ fs' = [fs EXCEPT ![OutputFile(InputFile)] =
                 File(Processed(InputFile, fs[InputFile].text))]
    /\ success_count' = success_count + 1
    /\ results' = Append(results, [path |-> InputFile, ok |-> TRUE, why |-> "written"])
    /\ k' = k + 1
    /\ UNCHANGED <<pc, argv, fs_initial, stdin, exit_code>>
    /\ UNCHANGED <<anonVars, vttVars>>

\* len(sys.argv) < 2: the usage text, then sys.exit(1)
MainUsage ==
    /\ pc = "main"
    /\ Len(argv) = 0
    /\ pc' = "exited"
    /\ exit_code' = 1
    /\ UNCHANGED <<argv, fs, fs_initial, k, success_count, results, stdin>>
    /\ UNCHANGED <<anonVars, vttVars>>

\* the tally is printed, input() returns, sys.exit(0 if all succeeded else 1)
MainExit ==
    /\ pc = "main"
    /\ Len(argv) >= 1
    /\ k = Len(argv)
    /\ stdin = "line"
    /\ pc' = "exited"
    /\ exit_code' = IF success_count = Len(argv) THEN 0 ELSE 1
    /\ UNCHANGED <<argv, fs, fs_initial, k, success_count, results, stdin>>
    /\ UNCHANGED <<anonVars, vttVars>>

\* the tally is printed, input() finds standard input at its end and raises
\* EOFError, which nothing catches: the interpreter exits with status 1
MainEofError ==
    /\ pc = "main"
    /\ Len(argv) >= 1
    /\ k = Len(argv)
    /\ stdin = "eof"
    /\ pc' = "exited"
    /\ exit_code' = 1
    /\ UNCHANGED <<argv, fs, fs_initial, k, success_count, results, stdin>>
    /\ UNCHANGED <<anonVars, vttVars>>

NextBatch ==
    \/ FileAnonymized
    \/ FileMissing
    \/ FileUnsupported
    \/ FileReadError
    \/ FileWriteError
    \/ MainUsage
    \/ MainExit
    \/ MainEofError

SpecBatch == InitBatch /\ [][NextBatch]_vars

---------------------------------------------------------------------------
(* Claims on the anonymizer (SpecAnon) *)

Anonymized == pc \in {"reanonymize", "srt", "done"}
Reanonymized == pc \in {"srt", "done"}

\* the characters anonymized text may show
Opaque == {PLACEHOLDER, SP, TAB, CR, LF}

\* SubRip reading of a list of lines: a block starts on the first line or after
\* a blank line; its first line is the sequence number, its second the timing
\* line; every following line up to the next blank line is cue text
BlockStart(ls, j) == j = 1 \/ (j > 1 /\ IsBlankLine(ls[j - 1]))
CueTimingAt(ls, j) ==
    /\ j > 1
    /\ IsTimingLine(ls[j])
    /\ IsNumberLine(ls[j - 1])
    /\ BlockStart(ls, j - 1)
CueTextAt(ls, j) ==
    /\ ~IsBlankLine(ls[j])
    /\ \E t \in 1..(j - 1) :
          /\ CueTimingAt(ls, t)
          /\ \A m \in (t + 1)..j : ~IsBlankLine(ls[m])

SameShape(a, b) ==
    /\ Len(a) = Len(b)
    /\ \A j \in 1..Len(a) : Len(a[j]) = Len(b[j])

\* C1: after anonymize_content, no cue text line (a non-blank line between a
\* cue's timing line and the next blank line) shows a character other than
\* 'X', space, tab, carriage return or line feed -- also when the text line is
\* made of digits or contains '-->'.
C1_ContentNeverExposed ==
    Anonymized =>
        LET a == Split(content)
            b == Split(anonymized_content)
        IN  \A j \in 1..Len(a) :
                CueTextAt(a, j) =>
                    /\ j <= Len(b)
                    /\ \A q \in 1..Len(b[j]) : b[j][q] \in Opaque

\* C2: the output has as many lines as the input and the i-th output line is
\* as long as the i-th input line, for anonymize_content (lines split on '\n')
\* and for the loop of anonymize_srt (lines as readlines() gives them).
C2_ShapePreserved ==
    /\ Anonymized => SameShape(Split(content), Split(anonymized_content))
    /\ pc = "done" => SameShape(srt_read, ReadLines(srt_written))

C2_Witness ==
    /\ pc = "done"
    /\ Len(Split(content)) >= 3
    /\ \E j \in 1..Len(Split(content)) : IsBlankLine(Split(content)[j])
    /\ \E j \in 1..Len(Split(content)) : ~IsStructural(Split(content)[j])
    /\ anonymized_content # content
    /\ Len(srt_read) >= 3

\* C3: a line the anonymizer classifies as structural (blank or white space
\* only; digits only once trimmed; containing '-->') is the same line in the
\* output, at the same index, leading and trailing white space included.
C3_StructuralVerbatim ==
    /\ Anonymized =>
          LET a == Split(content)
              b == Split(anonymized_content)
          IN  \A j \in 1..Len(a) :
                  IsStructural(a[j]) => (j <= Len(b) /\ b[j] = a[j])
    /\ pc = "done" =>
          LET b == ReadLines(srt_written)
          IN  \A j \in 1..Len(srt_read) :
                  IsStructural(srt_read[j]) => (j <= Len(b) /\ b[j] = srt_read[j])

C3_Witness ==
    /\ pc = "done"
    /\ anonymized_content # content
    /\ \E j \in 1..Len(Split(content)) :
          LET l == Split(content)[j]
          IN  /\ IsNumberLine(l)
              /\ Strip(l) # l
              /\ Split(anonymized_content)[j] = l
    /\ \E j \in 1..Len(srt_read) :
          IsStructural(srt_read[j]) /\ Strip(srt_read[j]) # srt_read[j]

\* C4: a content line (not blank, not digits only, no '-->') keeps its length,
\* keeps every space, tab, carriage return and line feed where it was, and has
\* 'X' everywhere else; 'Hello, world!' becomes 'XXXXXX XXXXXX'.
MaskedLine(l, m) ==
    /\ Len(m) = Len(l)
    /\ \A q \in 1..Len(l) :
          m[q] = IF l[q] \in {SP, TAB, CR, LF} THEN l[q] ELSE PLACEHOLDER

HelloMasked == <<"X","X","X","X","X","X",SP,"X","X","X","X","X","X">>

C4_ContentMasked ==
    /\ Anonymized =>
          LET a == Split(content)
              b == Split(anonymized_content)
          IN  \A j \in 1..Len(a) :
                  /\ ~IsStructural(a[j]) => (j <= Len(b) /\ MaskedLine(a[j], b[j]))
                  /\ a[j] = HelloWorld => (j <= Len(b) /\ b[j] = HelloMasked)
    /\ pc = "done" =>
          LET b == ReadLines(srt_written)
          IN  \A j \in 1..Len(srt_read) :
                  ~IsStructural(srt_read[j]) =>
                      (j <= Len(b) /\ MaskedLine(srt_read[j], b[j]))

C4_Witness ==
    /\ pc = "done"
    /\ \E j \in 1..Len(Split(content)) : Split(content)[j] = HelloWorld
    /\ \E j \in 1..Len(Split(content)) :
          LET l == Split(content)[j]
          IN  /\ ~IsStructural(l)
              /\ \E q \in 1..Len(l) : l[q] = TAB
              /\ \E q \in 1..Len(l) : l[q] \notin {SP, TAB, CR, LF}

\* C5: anonymize_content is idempotent, and a line is structural in the
\* output exactly when it was structural in the input, on the first and on
\* the second application.
SameClasses(a, b) ==
    /\ Len(a) = Len(b)
    /\ \A j \in 1..Len(a) : IsStructural(a[j]) <=> IsStructural(b[j])

C5_Idempotent ==
    Reanonymized =>
        /\ reanonymized = anonymized_content
        /\ SameClasses(Split(content), Split(anonymized_content))
        /\ SameClasses(Split(anonymized_content), Split(reanonymized))

C5_Witness ==
    /\ Reanonymized
    /\ anonymized_content # content
    /\ \E j \in 1..Len(Split(content)) : IsStructural(Split(content)[j])
    /\ \E j \in 1..Len(Split(content)) :
          /\ ~IsStructural(Split(content)[j])
          /\ \E q \in 1..Len(Split(content)[j]) : Split(content)[j][q] = FF

---------------------------------------------------------------------------
(* Claims on the normalizer (SpecVtt) *)

Converted == pc \in {"anonymize", "reanonymize"}

\* WebVTT reading of the input: a comment block starts with NOTE alone or
\* followed by white space, a style block with STYLE alone
IsCommentStart(l) ==
    l = NOTE \/ StartsWith(l, NOTE \o <<SP>>) \/ StartsWith(l, NOTE \o <<TAB>>)
IsStyleStart(l) == l = STYLE

\* lines j..m are all in one block
SameBlock(ls, j, m) == \A r \in j..m : ~IsBlankLine(ls[r])

\* the block that starts at j is a cue block: an optional identifier, the
\* timing line, then text lines without '-->'
CueBlockAt(ls, j) ==
    LET t == IF IsTimingLine(ls[j]) THEN j ELSE j + 1
    IN  /\ t <= Len(ls)
        /\ IsTimingLine(ls[t])
        /\ t > j => (~IsCommentStart(ls[j]) /\ ~IsStyleStart(ls[j]))
        /\ \A m \in (t + 1)..Len(ls) : SameBlock(ls, j, m) => ~IsTimingLine(ls[m])

\* the block that starts at j is a comment block
CommentBlockAt(ls, j) ==
    /\ IsCommentStart(ls[j])
    /\ \A m \in j..Len(ls) : SameBlock(ls, j, m) => ~IsTimingLine(ls[m])

\* a WebVTT document: the signature line, a blank line, then cue and comment
\* blocks separated by blank lines
WellFormedVtt(ls) ==
    /\ Len(ls) >= 2
    /\ ls[1] = WEBVTT
    /\ IsBlankLine(ls[2])
    /\ \A j \in 3..Len(ls) :
          (~IsBlankLine(ls[j]) /\ IsBlankLine(ls[j - 1])) =>
              (CueBlockAt(ls, j) \/ CommentBlockAt(ls, j))

\* the timing lines of the cues of a well-formed document, in order
InputTimings(ls) == SelectSeq(ls, IsTimingLine)

\* an input timing line up to the end of its second timestamp, every
\* period turned into a comma
ExpectedTiming(l) ==
    LET arrows == Positions(l, [q \in 1..Len(l) |-> q + 2 <= Len(l) /\ SubSeq(l, q, q + 2) = Arrow])
        starts == Positions(l, [q \in 1..Len(l) |-> q >= arrows[1] + 3 /\ ~IsSpace(l[q])])
        stops == Positions(l, [q \in 1..Len(l) |-> q > starts[1] /\ IsSpace(l[q])])
        last == IF stops = <<>> THEN Len(l) ELSE stops[1] - 1
    IN  IF starts = <<>> THEN l
        ELSE [q \in 1..last |-> IF l[q] = "." THEN "," ELSE l[q]]

\* out holds exactly the sequence numbers 1..N, each directly followed by the
\* timing line of the cue of that rank, and no other digits-only or '-->' line
CuesNumbered(in, out) ==
    LET timings == InputTimings(in)
        nums == Positions(out, [j \in 1..Len(out) |-> IsNumberLine(out[j])])
        arrows == Positions(out, [j \in 1..Len(out) |-> IsTimingLine(out[j])])
    IN  /\ Len(nums) = Len(timings)
        /\ Len(arrows) = Len(timings)
        /\ \A n \in 1..Len(timings) :
              /\ out[nums[n]] = Str(n)
              /\ arrows[n] = nums[n] + 1
              /\ out[arrows[n]] = ExpectedTiming(timings[n])

\* C6: for a WebVTT document with N cues the normalizer output, and the
\* anonymized output after it, hold exactly N sequence-number lines 1..N in
\* order, each directly followed by the timing line of its cue with commas for
\* the millisecond periods, and no other digits-only or '-->' line.
C6_CuesPreserved ==
    /\ (Converted /\ WellFormedVtt(Split(vtt_content))) =>
          CuesNumbered(Split(vtt_content), Split(content))
    /\ (pc = "reanonymize" /\ WellFormedVtt(Split(vtt_content))) =>
          CuesNumbered(Split(vtt_content), Split(anonymized_content))

\* SubRip line structure: nothing at all, or blocks that each start with a
\* sequence-number line, then a timing line, then at least one non-blank text
\* line, a blank line before the next block; a '-->' line is always the second
\* line of its block
ConformsSubRip(ls) ==
    \/ ls = << <<>> >>
    \/ \A j \in 1..Len(ls) :
          /\ BlockStart(ls, j) =>
                /\ IsNumberLine(ls[j])
                /\ j + 2 <= Len(ls)
                /\ IsTimingLine(ls[j + 1])
                /\ ~IsBlankLine(ls[j + 2])
          /\ IsTimingLine(ls[j]) => (j > 1 /\ BlockStart(ls, j - 1))

\* C9: whatever the input, the normalizer output is a sequence of SubRip
\* blocks: number line, timing line, one or more non-empty text lines, and a
\* blank line before the next block.
C9_OutputConformsSubRip == Converted => ConformsSubRip(Split(content))

\* the line the scan is about to read is a cue identifier: it starts a block
\* (first line, or after a blank line), the next line is a timing line, and
\* it is neither blank, nor a timing line, nor a header, STYLE or NOTE line
IdentifierNext ==
    /\ Scanning
    /\ i + 2 <= Len(lines)
    /\ i = 0 \/ Strip(lines[i]) = <<>>
    /\ Contains(Strip(lines[i + 2]), Arrow)
    /\ CurrentLine # <<>>
    /\ ~Contains(CurrentLine, Arrow)
    /\ ~IsHeader(CurrentLine)
    /\ ~IsBlockStart(CurrentLine)

\* C10: the step of the scan that reads a cue identifier emits nothing,
\* whatever lines came before it.
C10_IdentifierDropped == [][IdentifierNext => srt_lines' = srt_lines]_vars

---------------------------------------------------------------------------
(* Claims on the batch run (SpecBatch) *)

Exited == pc = "exited" /\ Len(argv) >= 1

\* C7: every path is attempted exactly once, in argument order, whatever
\* failed before it; the tally is the number of paths that succeeded; the
\* exit code is 0 exactly when every path succeeded.
C7_BatchOutcome ==
    Exited =>
        /\ Len(results) = Len(argv)
        /\ \A n \in 1..Len(argv) : results[n].path = argv[n]
        /\ success_count = Cardinality({n \in 1..Len(results) : results[n].ok})
        /\ exit_code = 0 <=> \A n \in 1..Len(results) : results[n].ok

\* the other paths of the batch
OtherPaths == {argv[n] : n \in 1..Len(argv)} \ {InputFile}

\* C8: the step that processes one path leaves alone every file that is the
\* input or the output of another path of the batch, and it ends as it would
\* with that path alone on the initial file system: it succeeds only on a
\* file that was there, and writes the anonymization of what that file held.
C8_FilesIndependent ==
    [][Looping =>
          /\ \A q \in OtherPaths :
                /\ fs'[q] = fs[q]
                /\ Supported(q) => fs'[OutputFile(q)] = fs[OutputFile(q)]
          /\ success_count' > success_count =>
                /\ fs_initial[InputFile].exists
                /\ fs'[OutputFile(InputFile)] =
                      File(Processed(InputFile, fs_initial[InputFile].text))
          /\ ~fs[InputFile].exists => ~fs_initial[InputFile].exists]_vars

====
